---------------------------- MODULE Spec2Model ----------------------------
(***************************************************************************)
(* Desk matching pipeline of ai-occupancy-planner:                         *)
(*   src/src/services/nlp.js      parseQuery                               *)
(*   src/src/services/matcher.js  matchDesks                               *)
(*   src/unnamed/part_001         matchDesksHandler                        *)
(*                                                                         *)
(* Conventions.                                                            *)
(*  - A JavaScript string whose characters matter (zone names, feature     *)
(*    tags, descriptions, locations) is a sequence of one-character        *)
(*    strings, so that toLowerCase and includes are computed, not assumed. *)
(*  - Desk types, statuses, identifiers, which the code only compares for  *)
(*    equality with literals, are TLA+ strings.                            *)
(*  - A timestamp is a number of milliseconds, as Date arithmetic gives.   *)
(*  - utilization_rate is carried in percent (1.0 = 100); only its order   *)
(*    is used by the code.                                                 *)
(*  - A JSON value of unknown type is a record [t |-> type, v |-> value].  *)
(***************************************************************************)
EXTENDS Integers, Sequences, FiniteSets, TLC

VARIABLES
    desksData,      \* data/desks.json .desks
    spacesData,     \* data/spaces.json .spaces
    prefsData,      \* data/employee_preferences.json .employee_preferences
    policiesData,   \* data/policies.json .policies
    metricsData,    \* data/metrics.json .metrics
    sensorsData,    \* data/sensors.json .sensors
    occData,        \* data/occupancy.json .occupancy_data
    pc,             \* "idle" | "awaiting" (parseQuery awaits the client) | "done"
    employeeId,     \* matchDesks argument; Absent when undefined
    now,            \* const now = new Date()
    reply,          \* how the client's completion call settled
    parsed,         \* what parseQuery returned (or that it threw)
    effective,      \* deskPreferences, finalDeskType, equipNeeds, adjPrefs, ...
    metricsMap,     \* area_id -> latest metrics record
    rejectedBy,     \* per desk of desksData: the filter that returned false
    candidates,     \* the desks that passed the cascade
    result,         \* [threw, desks]: what matchDesks returned
    response        \* what matchDesksHandler sent

vars == <<desksData, spacesData, prefsData, policiesData, metricsData,
          sensorsData, occData, pc, employeeId, now, reply, parsed, effective,
          metricsMap, rejectedBy, candidates, result, response>>

dataVars == <<desksData, spacesData, prefsData, policiesData, metricsData,
              sensorsData, occData>>

-----------------------------------------------------------------------------
(* JavaScript strings and arrays                                           *)

UpperChars == <<"A","B","C","D","E","F","G","H","I","J","K","L","M",
                "N","O","P","Q","R","S","T","U","V","W","X","Y","Z">>
LowerChars == <<"a","b","c","d","e","f","g","h","i","j","k","l","m",
                "n","o","p","q","r","s","t","u","v","w","x","y","z">>

\* String.prototype.toLowerCase on one character
lowerChar(c) ==
    IF \E i \in 1..Len(UpperChars) : UpperChars[i] = c
    THEN LowerChars[CHOOSE i \in 1..Len(UpperChars) : UpperChars[i] = c]
    ELSE c

\* String.prototype.toLowerCase
toLowerCase(s) == [i \in 1..Len(s) |-> lowerChar(s[i])]

\* String.prototype.includes(sub): sub occurs in s as a contiguous substring
strIncludes(s, sub) ==
    \E i \in 1..(Len(s) - Len(sub) + 1) : SubSeq(s, i, i + Len(sub) - 1) = sub

\* Array.prototype.includes
arrIncludes(arr, x) == \E i \in 1..Len(arr) : arr[i] = x

\* JSON values whose type the code tests
JsArr(items) == [t |-> "array",  v |-> items]
JsStr(s)     == [t |-> "string", v |-> s]
JsNull       == [t |-> "null",   v |-> <<>>]
JsNum        == [t |-> "number", v |-> <<>>]
JsUndef      == [t |-> "undefined", v |-> <<>>]

Absent == "<undefined>"
NoType == "<null>"

-----------------------------------------------------------------------------
(* src/src/services/nlp.js                                                 *)

\* nlp.js:9-17
DEFAULT_PARSED ==
    [team                  |-> <<>>,
     desk_preferences      |-> <<>>,
     equipment_needs       |-> <<>>,
     preferred_days        |-> <<>>,
     preferred_location    |-> <<>>,
     accessibility_needs   |-> JsNull,
     adjacency_preferences |-> <<>>]

\* The object `raw = {}` of the catch block: every field reads undefined.
EmptyRaw ==
    [team                  |-> JsUndef,
     desk_preferences      |-> JsUndef,
     equipment_needs       |-> JsUndef,
     preferred_days        |-> JsUndef,
     preferred_location    |-> JsUndef,
     accessibility_needs   |-> JsUndef,
     adjacency_preferences |-> JsUndef]

\* mutant: JSON.parse stands after the try block
RawOf_parseUncaught(r) ==
    CASE r.outcome = "rejects"           -> [isNull |-> FALSE, obj |-> EmptyRaw]
      [] r.outcome \in {"garbage", "null"} -> [isNull |-> TRUE,  obj |-> EmptyRaw]
      [] OTHER                           -> [isNull |-> FALSE, obj |-> r.raw]

\* nlp.js:32-56.  A reply of the client is
\*   "rejects"  the awaited call throws,
\*   "garbage"  the text is not JSON, so JSON.parse throws,
\*   "null"     the text is the JSON literal null,
\*   "object"   the text (fenced or not) parses to the object r.raw.
\* The try block covers the call and the parse.  The value is what `raw`
\* holds after the try/catch; isNull tells that raw is null.
RawOf(r) ==
    CASE r.outcome \in {"rejects", "garbage"} -> [isNull |-> FALSE, obj |-> EmptyRaw]
      [] r.outcome = "null"                   -> [isNull |-> TRUE,  obj |-> EmptyRaw]
      [] OTHER                                -> [isNull |-> FALSE, obj |-> r.raw]

\* nlp.js:58-80: the returned object, each field type-checked.
\* Reading raw.team of null throws, outside the try block.
ShapeOf(raw) ==
    [team                  |-> IF raw.team.t = "string" THEN raw.team.v
                               ELSE DEFAULT_PARSED.team,
     desk_preferences      |-> IF raw.desk_preferences.t = "array"
                               THEN raw.desk_preferences.v
                               ELSE DEFAULT_PARSED.desk_preferences,
     equipment_needs       |-> IF raw.equipment_needs.t = "array"
                               THEN raw.equipment_needs.v
                               ELSE DEFAULT_PARSED.equipment_needs,
     preferred_days        |-> IF raw.preferred_days.t = "array"
                               THEN raw.preferred_days.v
                               ELSE DEFAULT_PARSED.preferred_days,
     preferred_location    |-> IF raw.preferred_location.t = "string"
                               THEN raw.preferred_location.v
                               ELSE DEFAULT_PARSED.preferred_location,
     accessibility_needs   |-> IF raw.accessibility_needs.t \in {"null", "string"}
                               THEN raw.accessibility_needs
                               ELSE DEFAULT_PARSED.accessibility_needs,
     adjacency_preferences |-> IF raw.adjacency_preferences.t = "array"
                               THEN raw.adjacency_preferences.v
                               ELSE DEFAULT_PARSED.adjacency_preferences]

\* nlp.js:19-81
parseQuery(r) ==
    LET raw == RawOf(r)
    IN  IF raw.isNull THEN [threw |-> TRUE,  value |-> DEFAULT_PARSED]
        ELSE               [threw |-> FALSE, value |-> ShapeOf(raw.obj)]

-----------------------------------------------------------------------------
(* src/src/services/matcher.js: preferences                                *)

\* The record `{}` of matcher.js:62 read through the `||` defaults of 64-68.
NoStoredPrefs ==
    [employee_id           |-> Absent,
     desk_preferences      |-> <<>>,
     equipment_needs       |-> <<>>,
     adjacency_preferences |-> <<>>,
     preferred_location    |-> <<>>,
     accessibility_needs   |-> <<>>]

\* matcher.js:60-68
basePrefs(prefs, id) ==
    IF \E i \in 1..Len(prefs) : prefs[i].employee_id = id
    THEN prefs[CHOOSE i \in 1..Len(prefs) :
                 /\ prefs[i].employee_id = id
                 /\ \A j \in 1..(i - 1) : prefs[j].employee_id # id]
    ELSE NoStoredPrefs

\* mutant: the literals are tried in turn, 'standing' first
finalDeskTypeOf_byLiteral(deskPreferences) ==
    IF arrIncludes(deskPreferences, "standing") THEN "standing"
    ELSE IF arrIncludes(deskPreferences, "regular") THEN "regular"
    ELSE NoType

\* matcher.js:87-89: Array.prototype.find over the merged list
finalDeskTypeOf(deskPreferences) ==
    IF \E i \in 1..Len(deskPreferences) : deskPreferences[i] \in {"standing", "regular"}
    THEN deskPreferences[CHOOSE i \in 1..Len(deskPreferences) :
            /\ deskPreferences[i] \in {"standing", "regular"}
            /\ \A j \in 1..(i - 1) : deskPreferences[j] \notin {"standing", "regular"}]
    ELSE NoType

\* matcher.js:82-99
effectivePrefs(p, base) ==
    LET deskPreferences == IF Len(p.desk_preferences) > 0
                           THEN p.desk_preferences ELSE base.desk_preferences
    IN  [deskPreferences   |-> deskPreferences,
         finalDeskType     |-> finalDeskTypeOf(deskPreferences),
         equipNeeds        |-> IF Len(p.equipment_needs) > 0
                               THEN p.equipment_needs ELSE base.equipment_needs,
         adjPrefs          |-> IF Len(p.adjacency_preferences) > 0
                               THEN p.adjacency_preferences
                               ELSE base.adjacency_preferences,
         preferredLocation |-> IF p.preferred_location # <<>>
                               THEN p.preferred_location ELSE base.preferred_location,
         accessibilityNeed |-> IF p.accessibility_needs.t = "null"
                               THEN base.accessibility_needs
                               ELSE p.accessibility_needs.v]

NoEffective == effectivePrefs(DEFAULT_PARSED, NoStoredPrefs)

-----------------------------------------------------------------------------
(* src/src/services/matcher.js: lookup maps                                *)

EmptyMap == [x \in {} |-> 0]

\* matcher.js:103-106
RECURSIVE occMapOf(_)
occMapOf(occ) ==
    IF occ = <<>> THEN EmptyMap
    ELSE LET o == occ[Len(occ)]
         IN  (o.area_id :> o.occupancy_percentage) @@ occMapOf(SubSeq(occ, 1, Len(occ) - 1))

\* mutant: a record of the same date replaces the one held
metricsStep_replaceOnTie(map, m) ==
    IF m.area_id \notin DOMAIN map \/ m.date >= map[m.area_id].date
    THEN (m.area_id :> m) @@ map
    ELSE map

\* matcher.js:111-114: one step of the forEach
metricsStep(map, m) ==
    IF m.area_id \notin DOMAIN map \/ m.date > map[m.area_id].date
    THEN (m.area_id :> m) @@ map
    ELSE map

\* matcher.js:109-115
RECURSIVE metricsMapOf(_)
metricsMapOf(metrics) ==
    IF metrics = <<>> THEN EmptyMap
    ELSE metricsStep(metricsMapOf(SubSeq(metrics, 1, Len(metrics) - 1)),
                     metrics[Len(metrics)])

\* matcher.js:118-121
RECURSIVE sensorMapOf(_)
sensorMapOf(sensors) ==
    IF sensors = <<>> THEN EmptyMap
    ELSE LET s == sensors[Len(sensors)]
         IN  (s.area_id :> [status |-> s.status, lastReading |-> s.last_reading])
             @@ sensorMapOf(SubSeq(sensors, 1, Len(sensors) - 1))

-----------------------------------------------------------------------------
(* src/src/services/matcher.js: the cascading filters                      *)

MsPerHour == 1000 * 60 * 60           \* matcher.js:160, 182
CapacityLimit == 80                   \* matcher.js:152
CooldownHours == 4                    \* matcher.js:161
SensorMaxAgeHours == 1                \* matcher.js:185

hasPolicy(policies, id) == \E i \in 1..Len(policies) : policies[i].id = id

\* mutant: only occupied desks are turned away
availabilityRejects_occupiedOnly(d) == d.status = "occupied"

\* matcher.js:126
availabilityRejects(d) == d.status # "available"

\* matcher.js:128
deskTypeRejects(d, finalDeskType) ==
    finalDeskType # NoType /\ d.type # finalDeskType

\* mutant: the standing-desk rule is left out
standingRejects_never(d, deskPreferences) == FALSE

\* matcher.js:131-133
standingRejects(d, deskPreferences) ==
    d.type = "standing" /\ ~arrIncludes(deskPreferences, "standing")

\* mutant: a desk is kept as soon as it has one of the requested tags
equipmentRejects_allMissing(d, equipNeeds) ==
    /\ equipNeeds # <<>>
    /\ \A i \in 1..Len(equipNeeds) : ~arrIncludes(d.features, equipNeeds[i])

\* matcher.js:135-137
equipmentRejects(d, equipNeeds) ==
    \E i \in 1..Len(equipNeeds) : ~arrIncludes(d.features, equipNeeds[i])

\* Array.prototype.find over spacesData.spaces; <<>> when nothing is found
findSpace(spaces, test(_)) ==
    IF \E i \in 1..Len(spaces) : test(spaces[i])
    THEN <<spaces[CHOOSE i \in 1..Len(spaces) :
                    test(spaces[i]) /\ \A j \in 1..(i - 1) : ~test(spaces[j])]>>
    ELSE <<>>

\* matcher.js:140-148
locationRejects(d, preferredLocation, spaces) ==
    /\ preferredLocation # <<>>
    /\ d.zone # preferredLocation
    /\ LET byName(s) == s.name = d.zone
           zone == findSpace(spaces, byName)
       IN  \/ zone = <<>>
           \/ LET byId(s) == s.id = zone[1].parent_id
                  floor == findSpace(spaces, byId)
              IN  floor = <<>> \/ floor[1].name # preferredLocation

\* matcher.js:151-155.  occMap[d.area_id] of an unknown area is undefined,
\* and undefined >= 80 is false.
capacityRejects(d, policies, occMap) ==
    /\ hasPolicy(policies, "POL-005")
    /\ d.area_id \in DOMAIN occMap
    /\ occMap[d.area_id] >= CapacityLimit

\* mutant: a desk is still turned away at exactly four hours
sanitizationRejects_inclusive(d, policies, t) ==
    /\ hasPolicy(policies, "POL-002")
    /\ (t - d.last_used) <= CooldownHours * MsPerHour

\* matcher.js:158-165.  (now - last_used) / 3600000 < 4 is decided on the
\* milliseconds: the quotient of an integer below 4 * 3600000 stays below 4.
sanitizationRejects(d, policies, t) ==
    /\ hasPolicy(policies, "POL-002")
    /\ (t - d.last_used) < CooldownHours * MsPerHour

\* matcher.js:168-174.  The description is lower-cased, the need is not.
accessibilityRejects(d, accessibilityNeed) ==
    /\ accessibilityNeed # <<>>
    /\ ~arrIncludes(d.features, accessibilityNeed)
    /\ ~strIncludes(toLowerCase(d.location_description), accessibilityNeed)

\* matcher.js:182-184: the age is computed, then overwritten with 0.
sensorAgeMs(sensor, t) == 0

\* matcher.js:177-186
sensorRejects(d, sensorMap, t) ==
    /\ d.area_id \in DOMAIN sensorMap
    /\ \/ sensorMap[d.area_id].status # "active"
       \/ sensorAgeMs(sensorMap[d.area_id], t) > SensorMaxAgeHours * MsPerHour

\* matcher.js:124-190: which `return false` a desk takes, "" when it takes
\* `return true`.
rejection(d, eff, spaces, policies, occMap, sensorMap, t) ==
    CASE availabilityRejects(d)                              -> "availability"
      [] deskTypeRejects(d, eff.finalDeskType)               -> "deskType"
      [] standingRejects(d, eff.deskPreferences)             -> "standing"
      [] equipmentRejects(d, eff.equipNeeds)                 -> "equipment"
      [] locationRejects(d, eff.preferredLocation, spaces)   -> "location"
      [] capacityRejects(d, policies, occMap)                -> "capacity"
      [] sanitizationRejects(d, policies, t)                 -> "sanitization"
      [] accessibilityRejects(d, eff.accessibilityNeed)      -> "accessibility"
      [] sensorRejects(d, sensorMap, t)                      -> "sensor"
      [] OTHER                                               -> ""

\* Array.prototype.filter with a per-element verdict
RECURSIVE keepPassed(_, _)
keepPassed(arr, verdict) ==
    IF arr = <<>> THEN <<>>
    ELSE (IF Head(verdict) = "" THEN <<Head(arr)>> ELSE <<>>)
         \o keepPassed(Tail(arr), Tail(verdict))

-----------------------------------------------------------------------------
(* src/src/services/matcher.js: partition and sort                         *)

\* matcher.js:196-198: Array.prototype.some, left to right, stopping at the
\* first match; pref.toLowerCase() of a non-string throws a TypeError.
RECURSIVE isAdjacent(_, _)
isAdjacent(d, adjPrefs) ==
    IF adjPrefs = <<>> THEN "false"
    ELSE LET pref == Head(adjPrefs)
         IN  IF pref.t # "string" THEN "throw"
             ELSE IF strIncludes(toLowerCase(d.zone), toLowerCase(pref.v)) THEN "true"
             ELSE isAdjacent(d, Tail(adjPrefs))

\* matcher.js:193-201
RECURSIVE selectAdj(_, _, _)
selectAdj(arr, adjPrefs, want) ==
    IF arr = <<>> THEN <<>>
    ELSE (IF isAdjacent(Head(arr), adjPrefs) = want THEN <<Head(arr)>> ELSE <<>>)
         \o selectAdj(Tail(arr), adjPrefs, want)

\* matcher.js:209-210
RECURSIVE matchCount(_, _)
matchCount(d, equipNeeds) ==
    IF equipNeeds = <<>> THEN 0
    ELSE (IF arrIncludes(d.features, Head(equipNeeds)) THEN 1 ELSE 0)
         + matchCount(d, Tail(equipNeeds))

\* mutant: an area without metrics counts as unused
utilOf_missingIsZero(d, mMap) ==
    IF d.area_id \in DOMAIN mMap THEN mMap[d.area_id].utilization_rate ELSE 0

\* matcher.js:218-219: metricsMap[area]?.utilization_rate ?? 1
utilOf(d, mMap) ==
    IF d.area_id \in DOMAIN mMap THEN mMap[d.area_id].utilization_rate ELSE 100

\* matcher.js:207-221: the comparator; negative when a sorts before b
compareDesks(a, b, equipNeeds, mMap) ==
    IF matchCount(b, equipNeeds) # matchCount(a, equipNeeds)
    THEN matchCount(b, equipNeeds) - matchCount(a, equipNeeds)
    ELSE IF a.last_used - b.last_used # 0
    THEN a.last_used - b.last_used
    ELSE utilOf(a, mMap) - utilOf(b, mMap)

\* Array.prototype.sort is stable (ECMAScript 2019): an element goes before
\* the first already-sorted element that compares greater.
RECURSIVE insertDesk(_, _, _, _)
insertDesk(sorted, x, equipNeeds, mMap) ==
    IF sorted = <<>> THEN <<x>>
    ELSE IF compareDesks(Head(sorted), x, equipNeeds, mMap) > 0
    THEN <<x>> \o sorted
    ELSE <<Head(sorted)>> \o insertDesk(Tail(sorted), x, equipNeeds, mMap)

\* matcher.js:207
RECURSIVE sorter(_, _, _)
sorter(arr, equipNeeds, mMap) ==
    IF arr = <<>> THEN <<>>
    ELSE insertDesk(sorter(SubSeq(arr, 1, Len(arr) - 1), equipNeeds, mMap),
                    arr[Len(arr)], equipNeeds, mMap)

-----------------------------------------------------------------------------
(* src/src/services/matcher.js: matchDesks after the await of line 71      *)

matchDesks(r, id, t, desks, spaces, prefs, policies, metrics, sensors, occ) ==
    LET p        == parseQuery(r)
        eff      == effectivePrefs(p.value, basePrefs(prefs, id))
        occMap   == occMapOf(occ)
        mMap     == metricsMapOf(metrics)
        sMap     == sensorMapOf(sensors)
        verdict  == [i \in 1..Len(desks) |->
                        rejection(desks[i], eff, spaces, policies, occMap, sMap, t)]
        cands    == keepPassed(desks, verdict)
        throws   == \E i \in 1..Len(cands) : isAdjacent(cands[i], eff.adjPrefs) = "throw"
        adjList  == selectAdj(cands, eff.adjPrefs, "true")
        otherList == selectAdj(cands, eff.adjPrefs, "false")
    IN  IF p.threw
        THEN [parsed |-> p, effective |-> NoEffective, metricsMap |-> EmptyMap,
              rejectedBy |-> <<>>, candidates |-> <<>>,
              result |-> [threw |-> TRUE, desks |-> <<>>]]
        ELSE [parsed |-> p, effective |-> eff, metricsMap |-> mMap,
              rejectedBy |-> verdict, candidates |-> cands,
              result |-> IF throws THEN [threw |-> TRUE, desks |-> <<>>]
                         ELSE [threw |-> FALSE,
                               desks |-> sorter(adjList, eff.equipNeeds, mMap)
                                         \o sorter(otherList, eff.equipNeeds, mMap)]]

-----------------------------------------------------------------------------
(* Actions                                                                 *)

NoReply    == [outcome |-> "", raw |-> EmptyRaw]
NoParsed   == [threw |-> FALSE, value |-> DEFAULT_PARSED]
NoResult   == [threw |-> FALSE, desks |-> <<>>]
NoResponse == [status |-> 0, success |-> FALSE, count |-> 0]

Idle ==
    /\ pc = "idle"
    /\ employeeId = Absent
    /\ now = 0
    /\ reply = NoReply
    /\ parsed = NoParsed
    /\ effective = NoEffective
    /\ metricsMap = EmptyMap
    /\ rejectedBy = <<>>
    /\ candidates = <<>>
    /\ result = NoResult
    /\ response = NoResponse

\* part_001:35 and matcher.js:55-71: the handler calls matchDesks, which
\* reads the clock and awaits parseQuery, which awaits the client.
Request(id, t) ==
    /\ pc = "idle"
    /\ pc' = "awaiting"
    /\ employeeId' = id
    /\ now' = t
    /\ response' = NoResponse
    /\ UNCHANGED <<dataVars, reply, parsed, effective, metricsMap, rejectedBy,
                   candidates, result>>

\* nlp.js:34-80 and matcher.js:71-225: the client settles, parseQuery
\* returns or throws, matchDesks runs to its return.
NlpSettles(r) ==
    /\ pc = "awaiting"
    /\ reply' = r
    /\ LET m == matchDesks(r, employeeId, now, desksData, spacesData,
                           prefsData, policiesData, metricsData, sensorsData, occData)
       IN  /\ parsed' = m.parsed
           /\ effective' = m.effective
           /\ metricsMap' = m.metricsMap
           /\ rejectedBy' = m.rejectedBy
           /\ candidates' = m.candidates
           /\ result' = m.result
    /\ pc' = "done"
    /\ UNCHANGED <<dataVars, employeeId, now, response>>

\* part_001:34-58: the handler's envelope
Respond ==
    /\ pc = "done"
    /\ response' = IF result.threw
                   THEN [status |-> 500, success |-> FALSE, count |-> 0]
                   ELSE [status |-> 200, success |-> TRUE, count |-> Len(result.desks)]
    /\ pc' = "idle"
    /\ employeeId' = Absent
    /\ now' = 0
    /\ reply' = NoReply
    /\ parsed' = NoParsed
    /\ effective' = NoEffective
    /\ metricsMap' = EmptyMap
    /\ rejectedBy' = <<>>
    /\ candidates' = <<>>
    /\ result' = NoResult
    /\ UNCHANGED dataVars

-----------------------------------------------------------------------------
(* Data the program can load, and the requests and replies it can see      *)

\* strings whose characters matter
ZoneMk   == <<"M", "k">>                \* a zone under floor F3
ZoneEn   == <<"E", "n">>                \* a zone whose parent is not listed
FloorF3  == <<"F", "3">>
PrefMk   == <<"m", "K">>                \* an adjacency hint, in another case
TagMon   == <<"m", "o", "n">>           \* an equipment tag
TagChr   == <<"c", "h", "r">>
NeedWc   == <<"w", "c">>                \* an accessibility need
NeedWcUp == <<"W", "c">>
DescWc   == <<"a", "W", "C", "b">>      \* a description that mentions it
DescNone == <<"n", "r">>

Spaces ==
    << [id |-> "fl-3", name |-> FloorF3, parent_id |-> ""],
       [id |-> "z-mk", name |-> ZoneMk,  parent_id |-> "fl-3"],
       [id |-> "z-en", name |-> ZoneEn,  parent_id |-> "fl-9"] >>

HalfHour == MsPerHour \div 2
T0       == 100 * MsPerHour             \* a reference instant
Clock    == {T0, T0 + HalfHour}         \* when a request can arrive

\* occupancy, sensors and metrics by area:
\*   A1 half full, sensor active and fresh, two metrics records
\*   A2 at the capacity limit, sensor active but two hours stale, one record
\*   A3 over the limit, sensor inactive, no metrics
\*   A4 not measured at all
Occupancy ==
    << [area_id |-> "A1", occupancy_percentage |-> 50],
       [area_id |-> "A2", occupancy_percentage |-> 80],
       [area_id |-> "A3", occupancy_percentage |-> 85] >>

Sensors ==
    << [area_id |-> "A1", status |-> "active",   last_reading |-> T0 - HalfHour],
       [area_id |-> "A2", status |-> "active",   last_reading |-> T0 - 2 * MsPerHour],
       [area_id |-> "A3", status |-> "inactive", last_reading |-> T0] >>

Metrics ==
    << [area_id |-> "A1", date |-> 1, utilization_rate |-> 90],
       [area_id |-> "A1", date |-> 2, utilization_rate |-> 40],
       [area_id |-> "A2", date |-> 2, utilization_rate |-> 70] >>

PolicySets ==
    { <<>>,
      << [id |-> "POL-002"] >>,
      << [id |-> "POL-005"] >>,
      << [id |-> "POL-001"], [id |-> "POL-002"], [id |-> "POL-005"] >> }

StoredE1 ==
    [employee_id           |-> "E1",
     desk_preferences      |-> <<"standing">>,
     equipment_needs       |-> <<TagMon>>,
     adjacency_preferences |-> <<JsStr(PrefMk)>>,
     preferred_location    |-> FloorF3,
     accessibility_needs   |-> NeedWc]

StoredE2 ==
    [employee_id           |-> "E2",
     desk_preferences      |-> <<"near-window">>,
     equipment_needs       |-> <<>>,
     adjacency_preferences |-> <<>>,
     preferred_location    |-> <<>>,
     accessibility_needs   |-> <<>>]

StoredPrefs == << StoredE1, StoredE2 >>

EmployeeIds == {Absent, "E1", "E2", "E9"}

\* replies of the client
Failure(kind) == [outcome |-> kind, raw |-> EmptyRaw]

Object(deskPrefs, equip, location, access, adj) ==
    [outcome |-> "object",
     raw |-> [team                  |-> JsUndef,
              desk_preferences      |-> deskPrefs,
              equipment_needs       |-> equip,
              preferred_days        |-> JsArr(<<>>),
              preferred_location    |-> location,
              accessibility_needs   |-> access,
              adjacency_preferences |-> adj]]

Failures == { Failure("rejects"), Failure("garbage"), Failure("null") }

EmptyObject == Object(JsArr(<<>>), JsArr(<<>>), JsStr(<<>>), JsNull, JsArr(<<>>))

DeskPrefReplies ==
    { JsArr(<<>>), JsArr(<<"standing">>), JsArr(<<"regular">>),
      JsArr(<<"regular", "standing">>), JsArr(<<"standing", "regular">>),
      JsArr(<<"near-window", "standing">>), JsArr(<<"near-window">>),
      JsStr(<<>>) }

-----------------------------------------------------------------------------
(* Specifications                                                          *)

NumDesks   == 2       \* desks in desks.json
RankDesks  == 3       \* desks in desks.json where the order is studied
MaxMetrics == 3       \* records in metrics.json where the index is studied

\* A desk that passes every filter for every request of the pools above.
BaseDesk ==
    [id |-> 0, type |-> "regular", area_id |-> "A1", zone |-> ZoneMk,
     location_description |-> DescWc, features |-> <<TagMon>>,
     status |-> "available", last_used |-> T0 - 5 * MsPerHour]

\* desks.json holding n desks, each drawn from pool; the id of a desk is
\* its position in the file.
DeskFiles(pool, n) ==
    { [i \in 1..n |-> [f[i] EXCEPT !.id = i]] : f \in [1..n -> pool] }

InitWith(deskFiles, policySets, metricsFiles) ==
    /\ desksData \in deskFiles
    /\ spacesData = Spaces
    /\ prefsData = StoredPrefs
    /\ policiesData \in policySets
    /\ metricsData \in metricsFiles
    /\ sensorsData = Sensors
    /\ occData = Occupancy
    /\ Idle

AllPolicies == << [id |-> "POL-001"], [id |-> "POL-002"], [id |-> "POL-005"] >>

(* Spec: status and type of the desks, every shape of desk-preference      *)
(* reply, every employee.                                                  *)
StatusTypeDesks ==
    { [BaseDesk EXCEPT !.status = s, !.type = ty] :
        s \in {"available", "occupied", "reserved"}, ty \in {"regular", "standing"} }

Replies ==
    Failures \cup
    { Object(dp, eq, JsStr(<<>>), JsNull, JsArr(<<>>)) :
        dp \in DeskPrefReplies, eq \in {JsArr(<<>>), JsArr(<<TagChr>>)} }

Init == InitWith(DeskFiles(StatusTypeDesks, NumDesks), PolicySets, {Metrics})

Next ==
    \/ \E id \in EmployeeIds, t \in Clock : Request(id, t)
    \/ \E r \in Replies : NlpSettles(r)
    \/ Respond

Spec == Init /\ [][Next]_vars

(* SpecCascade: the filters that need no preference.  Desks differ in      *)
(* status, type, last use and area; the policy set varies.                 *)
CascadeDesks ==
    { [BaseDesk EXCEPT !.last_used = lu, !.area_id = a] :
        lu \in {T0 - 5 * MsPerHour, T0 - 4 * MsPerHour, T0 - 4 * MsPerHour + HalfHour},
        a \in {"A1", "A2"} }
    \cup { [BaseDesk EXCEPT !.area_id = a] : a \in {"A3", "A4"} }
    \cup { [BaseDesk EXCEPT !.status = "occupied"], [BaseDesk EXCEPT !.type = "standing"] }

CascadeReplies ==
    Failures \cup
    { EmptyObject,
      Object(JsArr(<<"standing">>), JsArr(<<>>), JsStr(<<>>), JsNull, JsArr(<<>>)) }

InitCascade == InitWith(DeskFiles(CascadeDesks, NumDesks), PolicySets, {Metrics})

NextCascade ==
    \/ \E id \in {Absent, "E1"}, t \in Clock : Request(id, t)
    \/ \E r \in CascadeReplies : NlpSettles(r)
    \/ Respond

SpecCascade == InitCascade /\ [][NextCascade]_vars

(* SpecRank: partition and order.  Desks differ in zone, last use,         *)
(* utilization of their area and feature tags; replies differ in the       *)
(* equipment and adjacency lists.                                          *)
RankDeskPool ==
    { [BaseDesk EXCEPT !.zone = z, !.last_used = T0 - p[1] * MsPerHour,
                       !.area_id = p[2], !.features = p[3]] :
        z \in {ZoneMk, ZoneEn},
        p \in { <<6, "A1", <<TagMon>>>>,
                <<5, "A1", <<TagMon>>>>,
                <<5, "A4", <<TagMon>>>>,
                <<5, "A4", <<TagChr, TagMon>>>>,
                <<6, "A4", <<TagChr, TagMon>>>> } }

RankReplies ==
    { Failure("rejects") } \cup
    { Object(JsArr(<<>>), JsArr(eq), JsStr(<<>>), JsNull, JsArr(adj)) :
        eq \in { <<>>, <<TagMon>>, <<TagMon, TagChr>> },
        adj \in { <<>>, <<JsStr(PrefMk)>>, <<JsStr(PrefMk), JsNum>> } }

InitRank == InitWith(DeskFiles(RankDeskPool, RankDesks), {AllPolicies}, {Metrics})

NextRank ==
    \/ \E id \in {Absent}, t \in {T0} : Request(id, t)
    \/ \E r \in RankReplies : NlpSettles(r)
    \/ Respond

SpecRank == InitRank /\ [][NextRank]_vars

(* SpecAccess: the accessibility filter.  Desks differ in description and  *)
(* feature tags; replies differ in the accessibility need and its case.    *)
AccessDesks ==
    { [BaseDesk EXCEPT !.location_description = ld, !.features = f] :
        ld \in { DescWc, NeedWc, DescNone, <<>> },
        f \in { <<TagMon>>, <<TagMon, NeedWc>>, <<NeedWcUp>> } }

AccessReplies ==
    { Failure("garbage") } \cup
    { Object(JsArr(<<>>), JsArr(<<>>), JsStr(<<>>), need, JsArr(<<>>)) :
        need \in { JsNull, JsNum, JsStr(<<>>), JsStr(NeedWc), JsStr(NeedWcUp),
                   JsStr(<<"W", "C">>), JsStr(<<"w", "c", "x">>) } }

InitAccess == InitWith(DeskFiles(AccessDesks, NumDesks), {AllPolicies}, {Metrics})

NextAccess ==
    \/ \E id \in {Absent, "E1", "E2"}, t \in {T0} : Request(id, t)
    \/ \E r \in AccessReplies : NlpSettles(r)
    \/ Respond

SpecAccess == InitAccess /\ [][NextAccess]_vars

(* SpecMetrics: the metrics index.  metrics.json is any sequence of at     *)
(* most MaxMetrics records over two areas, two dates and two rates.        *)
MetricsRecords ==
    { [area_id |-> a, date |-> dt, utilization_rate |-> u] :
        a \in {"A1", "A4"}, dt \in {1, 2}, u \in {40, 70} }

MetricsFiles ==
    UNION { [1..n -> MetricsRecords] : n \in 0..MaxMetrics }

MetricsDesks == { BaseDesk, [BaseDesk EXCEPT !.area_id = "A4"] }

InitMetrics == InitWith(DeskFiles(MetricsDesks, NumDesks), {AllPolicies}, MetricsFiles)

NextMetrics ==
    \/ \E id \in {Absent}, t \in {T0} : Request(id, t)
    \/ \E r \in {Failure("null"), EmptyObject} : NlpSettles(r)
    \/ Respond

SpecMetrics == InitMetrics /\ [][NextMetrics]_vars

-----------------------------------------------------------------------------
(* Vocabulary of the properties                                            *)

Returned == pc = "done" /\ ~result.threw

ReturnedIds == { result.desks[i].id : i \in 1..Len(result.desks) }

\* the zone name contains some adjacency token, case-insensitively
AdjacencyPreferred(d) ==
    \E i \in 1..Len(effective.adjPrefs) :
        /\ effective.adjPrefs[i].t = "string"
        /\ strIncludes(toLowerCase(d.zone), toLowerCase(effective.adjPrefs[i].v))

\* how many entries of the equipment-need list are feature tags of the desk
EquipmentMatches(d) ==
    Cardinality({ i \in 1..Len(effective.equipNeeds) :
                    \E k \in 1..Len(d.features) : d.features[k] = effective.equipNeeds[i] })

\* utilization of the desk's area by the metrics index, 1.0 without a record
Utilization(d) ==
    IF d.area_id \in DOMAIN metricsMap
    THEN metricsMap[d.area_id].utilization_rate ELSE 100

RankedBefore(a, b) ==
    \/ EquipmentMatches(a) > EquipmentMatches(b)
    \/ /\ EquipmentMatches(a) = EquipmentMatches(b)
       /\ \/ a.last_used < b.last_used
          \/ a.last_used = b.last_used /\ Utilization(a) <= Utilization(b)

Ordered(list) ==
    \A i, j \in 1..Len(list) :
        i < j =>
            \/ AdjacencyPreferred(list[i]) /\ ~AdjacencyPreferred(list[j])
            \/ /\ AdjacencyPreferred(list[i]) = AdjacencyPreferred(list[j])
               /\ RankedBefore(list[i], list[j])

\* the stored record of the request's employee, as a set (empty: none)
StoredRecords ==
    { prefsData[i] : i \in { k \in 1..Len(prefsData) : prefsData[k].employee_id = employeeId } }

-----------------------------------------------------------------------------
(* C1: every desk matchDesks returns has status "available"; a desk of the *)
(* file with another status is never among the returned desks.             *)
C1_OnlyAvailable ==
    Returned =>
        /\ \A i \in 1..Len(result.desks) : result.desks[i].status = "available"
        /\ \A k \in 1..Len(desksData) :
              desksData[k].status # "available" => desksData[k].id \notin ReturnedIds

\* a reserved desk that every other filter would pass is left out while
\* another desk is returned
C1_Witness ==
    /\ Returned
    /\ result.desks # <<>>
    /\ \E k \in 1..Len(desksData) :
          /\ desksData[k].status = "reserved"
          /\ desksData[k].type = "regular"
          /\ rejectedBy[k] = "availability"

-----------------------------------------------------------------------------
(* C5 as claimed: 'standing' has priority over 'regular' wherever they     *)
(* stand in the merged list, and returned desks have the enforced type.    *)
C5_StandingPriority ==
    Returned =>
        /\ effective.finalDeskType =
              IF \E i \in 1..Len(effective.deskPreferences) :
                    effective.deskPreferences[i] = "standing" THEN "standing"
              ELSE IF \E i \in 1..Len(effective.deskPreferences) :
                    effective.deskPreferences[i] = "regular" THEN "regular"
              ELSE NoType
        /\ effective.finalDeskType # NoType =>
              \A i \in 1..Len(result.desks) :
                  result.desks[i].type = effective.finalDeskType

(* C5 amended: the enforced type is the first entry of the merged list, in *)
(* list order, that is 'standing' or 'regular', none when there is no such *)
(* entry; when a type is enforced every returned desk has that type.       *)
C5_FirstListed ==
    Returned =>
        LET l    == effective.deskPreferences
            hits == { i \in 1..Len(l) : l[i] = "standing" \/ l[i] = "regular" }
        IN  /\ hits = {} => effective.finalDeskType = NoType
            /\ \A i \in hits :
                  (\A j \in hits : i <= j) => effective.finalDeskType = l[i]
            /\ effective.finalDeskType # NoType =>
                  \A i \in 1..Len(result.desks) :
                      result.desks[i].type = effective.finalDeskType

\* 'regular' listed before 'standing': regular desks are returned
C5_Witness ==
    /\ Returned
    /\ effective.deskPreferences = <<"regular", "standing">>
    /\ result.desks # <<>>
    /\ \E k \in 1..Len(desksData) : rejectedBy[k] = "deskType"

-----------------------------------------------------------------------------
(* C8: when the client call throws or its reply is not JSON, parseQuery    *)
(* returns the all-empty default object, every effective preference is the *)
(* employee's stored value (empty without a stored record), and matchDesks *)
(* returns an ordered list.                                                *)
C8_NlpFailureFallsBack ==
    (pc = "done" /\ reply.outcome \in {"rejects", "garbage"}) =>
        /\ ~parsed.threw
        /\ parsed.value = DEFAULT_PARSED
        /\ \A s \in StoredRecords :
              /\ effective.deskPreferences = s.desk_preferences
              /\ effective.equipNeeds = s.equipment_needs
              /\ effective.adjPrefs = s.adjacency_preferences
              /\ effective.preferredLocation = s.preferred_location
              /\ effective.accessibilityNeed = s.accessibility_needs
        /\ StoredRecords = {} =>
              /\ effective.deskPreferences = <<>>
              /\ effective.equipNeeds = <<>>
              /\ effective.adjPrefs = <<>>
              /\ effective.preferredLocation = <<>>
              /\ effective.accessibilityNeed = <<>>
        /\ ~result.threw
        /\ Ordered(result.desks)

\* unparseable reply for an employee with stored preferences: a desk that
\* fits the stored preferences is returned
C8_Witness ==
    /\ pc = "done"
    /\ reply.outcome = "garbage"
    /\ employeeId = "E1"
    /\ effective.equipNeeds = <<TagMon>>
    /\ result.desks # <<>>

-----------------------------------------------------------------------------
(* Vocabulary of the cascade properties                                    *)

PolicyPresent(id) == \E i \in 1..Len(policiesData) : policiesData[i].id = id

SensorRecords(d) ==
    { sensorsData[i] : i \in { k \in 1..Len(sensorsData) : sensorsData[k].area_id = d.area_id } }

OccupancyRecords(d) ==
    { occData[i] : i \in { k \in 1..Len(occData) : occData[k].area_id = d.area_id } }

ElapsedSinceUse(d) == now - d.last_used

AllPreferencesEmpty ==
    /\ effective.deskPreferences = <<>>
    /\ effective.equipNeeds = <<>>
    /\ effective.adjPrefs = <<>>
    /\ effective.preferredLocation = <<>>
    /\ effective.accessibilityNeed = <<>>

ByRecencyThenUtilization(list) ==
    \A i, j \in 1..Len(list) :
        i < j =>
            \/ list[i].last_used < list[j].last_used
            \/ /\ list[i].last_used = list[j].last_used
               /\ Utilization(list[i]) <= Utilization(list[j])

-----------------------------------------------------------------------------
(* C2: a returned desk whose area has a sensor record has that sensor      *)
(* active and read within the last hour; the sensor check turns away no    *)
(* desk whose area has no sensor record.  The code overwrites the age with *)
(* 0, so a desk under an active sensor read two hours ago is returned.     *)
C2_SensorActiveAndFresh ==
    Returned =>
        /\ \A i \in 1..Len(result.desks) :
              \A sr \in SensorRecords(result.desks[i]) :
                  /\ sr.status = "active"
                  /\ now - sr.last_reading <= SensorMaxAgeHours * MsPerHour
        /\ \A k \in 1..Len(desksData) :
              rejectedBy[k] = "sensor" => SensorRecords(desksData[k]) # {}

-----------------------------------------------------------------------------
(* C3: with policy POL-002 present no returned desk was used less than 4   *)
(* hours before the request; the sanitization check turns a desk away only *)
(* when the policy is present and less than 4 hours have elapsed, so not   *)
(* at exactly 4 hours and never without the policy.                        *)
C3_SanitizationCooldown ==
    Returned =>
        /\ PolicyPresent("POL-002") =>
              \A i \in 1..Len(result.desks) :
                  ElapsedSinceUse(result.desks[i]) >= CooldownHours * MsPerHour
        /\ \A k \in 1..Len(desksData) :
              rejectedBy[k] = "sanitization" =>
                  /\ PolicyPresent("POL-002")
                  /\ ElapsedSinceUse(desksData[k]) < CooldownHours * MsPerHour

\* one desk returned at exactly 4 hours, another turned away at 3.5 hours
C3_Witness ==
    /\ Returned
    /\ PolicyPresent("POL-002")
    /\ \E i \in 1..Len(result.desks) :
          ElapsedSinceUse(result.desks[i]) = CooldownHours * MsPerHour
    /\ \E k \in 1..Len(desksData) :
          /\ rejectedBy[k] = "sanitization"
          /\ ElapsedSinceUse(desksData[k]) = CooldownHours * MsPerHour - HalfHour

-----------------------------------------------------------------------------
(* C6 as claimed: without employee and with all preferences empty the      *)
(* result is every available desk, of every type, by last_used ascending   *)
(* then utilization ascending.                                             *)
C6_AllAvailableDesks ==
    (pc = "done" /\ ~parsed.threw /\ employeeId = Absent /\ AllPreferencesEmpty) =>
        /\ ~result.threw
        /\ ReturnedIds = { desksData[k].id : k \in { n \in 1..Len(desksData) :
                                                      desksData[n].status = "available" } }
        /\ ByRecencyThenUtilization(result.desks)

(* C6 amended: without employee and with all preferences empty matchDesks  *)
(* does not throw; it returns only available desks that are not standing   *)
(* desks, that the capacity policy (POL-005, occupancy >= 80) and the      *)
(* sanitization policy (POL-002, under 4 hours) do not turn away and whose *)
(* area sensor, if any, is active; it returns every such desk whose area   *)
(* has no sensor or a sensor read within the last hour; each desk at most  *)
(* once, by last_used ascending then utilization ascending.                *)
C6_UnconditionalFilters ==
    (pc = "done" /\ ~parsed.threw /\ employeeId = Absent /\ AllPreferencesEmpty) =>
        LET Eligible(d) ==
                /\ d.status = "available"
                /\ d.type # "standing"
                /\ ~(/\ PolicyPresent("POL-005")
                     /\ \E o \in OccupancyRecords(d) : o.occupancy_percentage >= CapacityLimit)
                /\ ~(/\ PolicyPresent("POL-002")
                     /\ ElapsedSinceUse(d) < CooldownHours * MsPerHour)
                /\ \A sr \in SensorRecords(d) : sr.status = "active"
            Fresh(d) ==
                \A sr \in SensorRecords(d) :
                    now - sr.last_reading <= SensorMaxAgeHours * MsPerHour
        IN  /\ ~result.threw
            /\ \A i \in 1..Len(result.desks) :
                  /\ \E k \in 1..Len(desksData) : desksData[k] = result.desks[i]
                  /\ Eligible(result.desks[i])
            /\ \A k \in 1..Len(desksData) :
                  (Eligible(desksData[k]) /\ Fresh(desksData[k])) =>
                      desksData[k].id \in ReturnedIds
            /\ \A i, j \in 1..Len(result.desks) :
                  i # j => result.desks[i].id # result.desks[j].id
            /\ ByRecencyThenUtilization(result.desks)

\* an available standing desk is left out and a regular desk is returned
C6_Witness ==
    /\ pc = "done" /\ ~parsed.threw /\ employeeId = Absent /\ AllPreferencesEmpty
    /\ result.desks # <<>>
    /\ \E k \in 1..Len(desksData) :
          /\ desksData[k].status = "available"
          /\ desksData[k].type = "standing"
          /\ rejectedBy[k] = "standing"

-----------------------------------------------------------------------------
(* C7: in the returned list, for A before B, either A is adjacency-        *)
(* preferred and B is not, or both are in the same partition and A has at  *)
(* least as many equipment matches, then a last_used not later, then a     *)
(* utilization not higher (1.0 for an area without metrics record); no     *)
(* adjacency-preferred desk stands after one that is not.                  *)
C7_PartitionThenRank ==
    Returned =>
        /\ Ordered(result.desks)
        /\ \A i, j \in 1..Len(result.desks) :
              (i < j /\ AdjacencyPreferred(result.desks[j])) =>
                  AdjacencyPreferred(result.desks[i])

\* three desks returned: a preferred one after which come two others that
\* tie on last_used, the one without metrics record last, although the file
\* lists them in the opposite order
C7_Witness ==
    /\ Returned
    /\ Len(result.desks) = 3
    /\ AdjacencyPreferred(result.desks[1])
    /\ ~AdjacencyPreferred(result.desks[2])
    /\ result.desks[2].last_used = result.desks[3].last_used
    /\ Utilization(result.desks[2]) < Utilization(result.desks[3])
    /\ result.desks[3].area_id \notin DOMAIN metricsMap
    /\ result.desks[3].id < result.desks[2].id
    /\ result.desks[2].id < result.desks[1].id

-----------------------------------------------------------------------------
(* C10: every desk that reaches the ranker matches every entry of the      *)
(* equipment-need list, so the match count is the length of the list for   *)
(* all of them and the order within a partition is by last_used, then      *)
(* utilization.                                                            *)
C10_EquipmentKeyConstant ==
    (pc = "done" /\ ~parsed.threw) =>
        /\ \A i \in 1..Len(candidates) :
              EquipmentMatches(candidates[i]) = Len(effective.equipNeeds)
        /\ ~result.threw =>
              \A i, j \in 1..Len(result.desks) :
                  (/\ i < j
                   /\ AdjacencyPreferred(result.desks[i]) = AdjacencyPreferred(result.desks[j]))
                  => ByRecencyThenUtilization(<<result.desks[i], result.desks[j]>>)

\* two needs asked for: a desk with one of the tags is turned away, desks
\* with both are ranked
C10_Witness ==
    /\ Returned
    /\ Len(effective.equipNeeds) = 2
    /\ Len(result.desks) = 2
    /\ \E k \in 1..Len(desksData) :
          /\ rejectedBy[k] = "equipment"
          /\ EquipmentMatches(desksData[k]) = 1

-----------------------------------------------------------------------------
(* C4: with an accessibility need set, a desk passes the accessibility     *)
(* filter exactly when the need is one of its feature tags or its          *)
(* description contains the need, compared case-insensitively.  The code   *)
(* lower-cases the description only, so the need "Wc" does not match the   *)
(* description "aWCb".                                                     *)
C4_AccessibilityAnyCase ==
    (Returned /\ effective.accessibilityNeed # <<>>) =>
        LET need == effective.accessibilityNeed
            Matches(d) ==
                \/ \E k \in 1..Len(d.features) : d.features[k] = need
                \/ strIncludes(toLowerCase(d.location_description), toLowerCase(need))
        IN  /\ \A i \in 1..Len(result.desks) : Matches(result.desks[i])
            /\ \A k \in 1..Len(desksData) :
                  Matches(desksData[k]) => rejectedBy[k] # "accessibility"

-----------------------------------------------------------------------------
(* Vocabulary of the metrics index                                         *)

\* positions in metrics.json of the records of area a with its maximum date
LatestPositions(a) ==
    { i \in 1..Len(metricsData) :
        /\ metricsData[i].area_id = a
        /\ \A j \in 1..Len(metricsData) :
              metricsData[j].area_id = a => metricsData[j].date <= metricsData[i].date }

MetricsAreas == { metricsData[i].area_id : i \in 1..Len(metricsData) }

(* C9 as claimed: the index maps each area to its record of maximum date,  *)
(* the last one in the file when several share that date.                  *)
C9_LastSeenWins ==
    (pc = "done" /\ ~parsed.threw) =>
        /\ DOMAIN metricsMap = MetricsAreas
        /\ \A a \in MetricsAreas :
              \A i \in LatestPositions(a) :
                  (\A j \in LatestPositions(a) : j <= i) => metricsMap[a] = metricsData[i]

(* C9 amended: the index maps each area to its record of maximum date, the *)
(* FIRST one in the file when several share that date, for every order of  *)
(* the records.                                                            *)
C9_FirstSeenWins ==
    (pc = "done" /\ ~parsed.threw) =>
        /\ DOMAIN metricsMap = MetricsAreas
        /\ \A a \in MetricsAreas :
              \A i \in LatestPositions(a) :
                  (\A j \in LatestPositions(a) : i <= j) => metricsMap[a] = metricsData[i]

\* an older record, then two records of the latest date with different
\* rates: the index holds the first of the two
C9_Witness ==
    /\ pc = "done" /\ ~parsed.threw
    /\ Len(metricsData) = 3
    /\ metricsData[1].area_id = "A1" /\ metricsData[1].date = 1
    /\ metricsData[2].area_id = "A1" /\ metricsData[2].date = 2
    /\ metricsData[3].area_id = "A1" /\ metricsData[3].date = 2
    /\ metricsData[2].utilization_rate # metricsData[3].utilization_rate
    /\ metricsMap["A1"] = metricsData[2]

=============================================================================
